---- MODULE Spec2Model ----
(***************************************************************************)
(* memchunk, JavaScript binding (packages/wasm/index.js) over the boundary *)
(* search engine it imports from ./pkg/memchunk_wasm.js.                   *)
(*                                                                         *)
(* The binding (toBytes, chunk, chunk_offsets, Chunker) is modelled from   *)
(* index.js.  The engine behind the imports (WasmChunker,                  *)
(* wasmChunkOffsets, wasmChunkOffsetsPattern) is not part of the source    *)
(* tree; it is modelled from the design document, sections 4.1 to 4.5.     *)
(*                                                                         *)
(* Byte offsets are 0-based as in the program; a buffer is a TLA+ sequence *)
(* so the byte at offset p is buf[p + 1].                                  *)
(***************************************************************************)
EXTENDS Integers, Sequences, FiniteSets, TLC

(***************************************************************************)
(* Bounds of the model.                                                    *)
(***************************************************************************)
MaxLen == 3      \* longest text drawn: characters of a string, bytes of an array
MaxSize == 2     \* largest explicit options.size drawn

(***************************************************************************)
(* Program constants.                                                      *)
(***************************************************************************)
DEFAULT_TARGET_SIZE == 4096
DEFAULT_DELIMITERS == {10, 46, 63}           \* "\n.?"
REPLACEMENT == 65533                         \* U+FFFD

Max(S) == CHOOSE x \in S : \A y \in S : y <= x
Min(S) == CHOOSE x \in S : \A y \in S : x <= y
MinOf(a, b) == IF a < b THEN a ELSE b

(***************************************************************************)
(* JavaScript values that reach the binding: a string (sequence of code    *)
(* points), a Uint8Array (sequence of bytes), a number, or undefined.      *)
(***************************************************************************)
Str(s) == [type |-> "string", data |-> s]
U8(b) == [type |-> "bytes", data |-> b]
Num(n) == [type |-> "number", num |-> n]
UndefinedNum == [type |-> "undefined", num |-> 0]
Undefined == [type |-> "undefined", data |-> <<>>]

\* JavaScript truthiness of a string | Uint8Array | undefined: the empty
\* string and undefined are falsy, every object (an empty array too) is truthy.
Truthy(v) ==
    /\ v.type # "undefined"
    /\ ~(v.type = "string" /\ v.data = <<>>)

(***************************************************************************)
(* TextEncoder.encode / TextDecoder.decode (UTF-8, sequences of 1..3 bytes)*)
(***************************************************************************)
EncodeCodePoint(cp) ==
    IF cp < 128 THEN <<cp>>
    ELSE IF cp < 2048 THEN <<192 + (cp \div 64), 128 + (cp % 64)>>
    ELSE <<224 + (cp \div 4096), 128 + ((cp \div 64) % 64), 128 + (cp % 64)>>

RECURSIVE encode(_)
encode(s) ==
    IF s = <<>> THEN <<>> ELSE EncodeCodePoint(Head(s)) \o encode(Tail(s))

IsContinuation(b) == b >= 128 /\ b < 192

\* number of continuation bytes the lead byte b announces; -1: not a lead byte
Needed(b) ==
    IF b < 128 THEN 0
    ELSE IF b >= 194 /\ b < 224 THEN 1
    ELSE IF b >= 224 /\ b < 240 THEN 2
    ELSE -1

RECURSIVE decode(_)
decode(b) ==
    IF b = <<>> THEN <<>>
    ELSE LET n == Needed(b[1]) IN
         IF n = 0 THEN <<b[1]>> \o decode(Tail(b))
         ELSE IF n = 1 /\ Len(b) >= 2 /\ IsContinuation(b[2])
              THEN <<(b[1] - 192) * 64 + (b[2] - 128)>> \o decode(SubSeq(b, 3, Len(b)))
         ELSE IF n = 2 /\ Len(b) >= 3 /\ IsContinuation(b[2]) /\ IsContinuation(b[3])
              THEN <<(b[1] - 224) * 4096 + (b[2] - 128) * 64 + (b[3] - 128)>>
                   \o decode(SubSeq(b, 4, Len(b)))
         ELSE IF n = 2 /\ Len(b) >= 2 /\ IsContinuation(b[2])
              THEN <<REPLACEMENT>> \o decode(SubSeq(b, 3, Len(b)))
         ELSE <<REPLACEMENT>> \o decode(Tail(b))

toBytes(input) ==
    IF input.type = "string" THEN encode(input.data) ELSE input.data

(***************************************************************************)
(* The engine.  cfg is the validated configuration of one chunker:         *)
(*   [mode, targetSize, delims, pattern, prefix, consecutive,              *)
(*    forwardFallback]                                                     *)
(* with mode "delimiters" (delims used) or "pattern" (pattern used).       *)
(***************************************************************************)

\* 4.1 Delimiter Classifier
IsDelimiter(b, delims) == b \in delims

\* 4.2 Pattern Matcher: every pattern byte matches at start p; the match
\* lies inside the buffer but may run past the search window.
MatchesAt(buf, pat, p) ==
    /\ p + Len(pat) <= Len(buf)
    /\ \A j \in 1..Len(pat) : buf[p + j] = pat[j]

\* a boundary (delimiter byte, or pattern occurrence) starts at offset p
Occurs(buf, cfg, p) ==
    IF cfg.mode = "pattern"
    THEN MatchesAt(buf, cfg.pattern, p)
    ELSE p < Len(buf) /\ IsDelimiter(buf[p + 1], cfg.delims)

\* number of bytes of one boundary
Width(cfg) == IF cfg.mode = "pattern" THEN Len(cfg.pattern) ELSE 1

NotFound == -1

\* 4.3 step 3 / 4.2: the occurrence closest to limit whose start is in
\* [cursor, limit]
FindBackward(buf, cfg, cursor, limit) ==
    LET cands == {p \in cursor..limit : Occurs(buf, cfg, p)}
    IN IF cands = {} THEN NotFound ELSE Max(cands)

\* 4.3 step 4: the first occurrence starting at limit + 1 or later
FindForward(buf, cfg, limit) ==
    LET cands == {p \in (limit + 1)..(Len(buf) - 1) : Occurs(buf, cfg, p)}
    IN IF cands = {} THEN NotFound ELSE Min(cands)

\* 4.3 step 3, consecutive: start of the run of adjacent occurrences that
\* ends with the occurrence at p, looked for inside the window (not below
\* cursor)
RunStart(buf, cfg, cursor, p) ==
    LET w == Width(cfg)
        starts == {q \in cursor..p :
                     /\ (p - q) % w = 0
                     /\ \A r \in q..p : (r - q) % w = 0 => Occurs(buf, cfg, r)}
    IN Min(starts)

\* 4.3 step 3: where the chunk ends for the occurrence at p
PlaceSplit(buf, cfg, cursor, p) ==
    IF cfg.prefix
    THEN IF cfg.consecutive THEN RunStart(buf, cfg, cursor, p) ELSE p
    ELSE p + Width(cfg)

\* 4.3 step 5: a split that would leave the cursor in place moves one byte on
ForceProgress(cursor, split) == IF split = cursor THEN cursor + 1 ELSE split

\* 4.3 Boundary Finder: the end of the chunk that starts at cursor
\* (cursor < Len(buf)).  The backward window is [cursor, limit], the byte at
\* limit included; the forward scan starts at limit + 1.  With
\* forwardFallback set and no occurrence ahead either, the only fallback the
\* design names remains: the hard cut at limit.
FindBoundary(buf, cfg, cursor) ==
    LET limit == MinOf(cursor + cfg.targetSize, Len(buf))
        back == FindBackward(buf, cfg, cursor, limit)
        fwd == FindForward(buf, cfg, limit)
        split == IF limit = Len(buf) THEN Len(buf)
                 ELSE IF back # NotFound THEN PlaceSplit(buf, cfg, cursor, back)
                 ELSE IF cfg.forwardFallback /\ fwd # NotFound
                      THEN PlaceSplit(buf, cfg, cursor, fwd)
                 ELSE limit
    IN ForceProgress(cursor, split)

\* 4.5 Batch Offsets / 4.4 collectOffsets: one pass from cursor to the end
\* of the buffer, as the flat list start, end, start, end, ...
RECURSIVE DrainFlat(_, _, _)
DrainFlat(buf, cfg, cursor) ==
    IF cursor >= Len(buf) THEN <<>>
    ELSE LET end == FindBoundary(buf, cfg, cursor)
         IN <<cursor, end>> \o DrainFlat(buf, cfg, end)

InvalidConfig == [ok |-> FALSE, error |-> "InvalidConfig"]

\* 4.4 construct / section 7: validation at the delimiter-set entry points;
\* size and delimiters are optional, prefix is an optional flag
DelimiterConfig(size, delimiters, prefix) ==
    LET targetSize == IF size.type = "undefined" THEN DEFAULT_TARGET_SIZE ELSE size.num
        delims == IF delimiters.type = "undefined" THEN DEFAULT_DELIMITERS
                  ELSE {toBytes(delimiters)[i] : i \in 1..Len(toBytes(delimiters))}
    IN IF targetSize = 0 THEN InvalidConfig
       ELSE [ok |-> TRUE,
             cfg |-> [mode |-> "delimiters", targetSize |-> targetSize,
                      delims |-> delims, pattern |-> <<>>, prefix |-> prefix,
                      consecutive |-> FALSE, forwardFallback |-> FALSE]]

\* 4.4 constructWithPattern / section 7: validation at the pattern entry points
PatternConfig(size, patternBytes, prefix, consecutive, forwardFallback) ==
    IF size = 0 \/ patternBytes = <<>> THEN InvalidConfig
    ELSE [ok |-> TRUE,
          cfg |-> [mode |-> "pattern", targetSize |-> size,
                   delims |-> {}, pattern |-> patternBytes, prefix |-> prefix,
                   consecutive |-> consecutive,
                   forwardFallback |-> forwardFallback]]

\* section 6 chunkOffsets(buffer, size?, delimiters?, prefix?)
wasmChunkOffsets(bytes, size, delimiters, prefix) ==
    LET c == DelimiterConfig(size, delimiters, prefix)
    IN IF c.ok THEN [ok |-> TRUE, flat |-> DrainFlat(bytes, c.cfg, 0)]
       ELSE [ok |-> FALSE, flat |-> <<>>]

\* section 6 chunkOffsetsPattern(buffer, size, pattern, prefix?, consecutive?,
\* forwardFallback?)
wasmChunkOffsetsPattern(bytes, size, patternBytes, prefix, consecutive, forwardFallback) ==
    LET c == PatternConfig(size, patternBytes, prefix, consecutive, forwardFallback)
    IN IF c.ok THEN [ok |-> TRUE, flat |-> DrainFlat(bytes, c.cfg, 0)]
       ELSE [ok |-> FALSE, flat |-> <<>>]

(***************************************************************************)
(* 4.4 Chunker of the engine (WasmChunker): [cfg, cursor, exhausted].      *)
(***************************************************************************)
NoChunk == [some |-> FALSE, start |-> 0, end |-> 0]
View(s, e) == [some |-> TRUE, start |-> s, end |-> e]

NoCfg ==
    [mode |-> "none", targetSize |-> 0, delims |-> {}, pattern |-> <<>>,
     prefix |-> FALSE, consecutive |-> FALSE, forwardFallback |-> FALSE]
NoWasm == [cfg |-> NoCfg, cursor |-> 0, exhausted |-> FALSE]

\* construct(buffer, size?, delimiters?, prefix?): Active, cursor = 0
WasmNew(bytes, size, delimiters, prefix) ==
    LET c == DelimiterConfig(size, delimiters, prefix)
    IN IF c.ok
       THEN [ok |-> TRUE, wasm |-> [cfg |-> c.cfg, cursor |-> 0, exhausted |-> FALSE]]
       ELSE [ok |-> FALSE, wasm |-> NoWasm]

\* constructWithPattern(buffer, size, pattern, prefix?, consecutive?, forwardFallback?)
WasmWithPattern(bytes, size, patternBytes, prefix, consecutive, forwardFallback) ==
    LET c == PatternConfig(size, patternBytes, prefix, consecutive, forwardFallback)
    IN IF c.ok
       THEN [ok |-> TRUE, wasm |-> [cfg |-> c.cfg, cursor |-> 0, exhausted |-> FALSE]]
       ELSE [ok |-> FALSE, wasm |-> NoWasm]

\* WasmNext that returns the view but leaves the cursor where it was
WasmNext_stuck(bytes, w) ==
    IF w.exhausted THEN [wasm |-> w, chunk |-> NoChunk]
    ELSE IF w.cursor = Len(bytes)
         THEN [wasm |-> [w EXCEPT !.exhausted = TRUE], chunk |-> NoChunk]
    ELSE LET end == FindBoundary(bytes, w.cfg, w.cursor)
         IN [wasm |-> w, chunk |-> View(w.cursor, end)]

\* advance(): the next view into the buffer, or "no more chunks"
WasmNext(bytes, w) ==
    IF w.exhausted THEN [wasm |-> w, chunk |-> NoChunk]
    ELSE IF w.cursor = Len(bytes)
         THEN [wasm |-> [w EXCEPT !.exhausted = TRUE], chunk |-> NoChunk]
    ELSE LET end == FindBoundary(bytes, w.cfg, w.cursor)
         IN [wasm |-> [w EXCEPT !.cursor = end, !.exhausted = (end = Len(bytes))],
             chunk |-> View(w.cursor, end)]

\* reset(): cursor = 0, Active
WasmReset(w) == [w EXCEPT !.cursor = 0, !.exhausted = FALSE]

\* collectOffsets(): the remaining boundary pairs, flat, in one pass from the
\* current cursor; the chunker is exhausted afterwards
WasmCollectOffsets(bytes, w) ==
    [wasm |-> [w EXCEPT !.cursor = Len(bytes), !.exhausted = TRUE],
     flat |-> IF w.exhausted THEN <<>> ELSE DrainFlat(bytes, w.cfg, w.cursor)]

(***************************************************************************)
(* The binding, index.js.                                                  *)
(* options == [size, delimiters, pattern, prefix, consecutive,             *)
(*             forwardFallback]                                            *)
(***************************************************************************)

\* SizeOrDefault with the operands swapped (4096 ?? size)
SizeOrDefault_swapped(size) == 4096

\* size ?? 4096
SizeOrDefault(size) == IF size.type = "undefined" THEN 4096 ELSE size.num

\* PairsOf with the loop stopping one pair early (i < flat.length - 2)
PairsOf_short(flat) ==
    [k \in 1..((Len(flat) \div 2) - 1) |-> [start |-> flat[2 * k - 1], end |-> flat[2 * k]]]

\* PairsOf with the loop stepping by one (i++ in place of i += 2)
PairsOf_step1(flat) ==
    [k \in 1..(Len(flat) - 1) |-> [start |-> flat[k], end |-> flat[k + 1]]]

\* for (let i = 0; i < flat.length; i += 2) pairs.push([flat[i], flat[i + 1]])
PairsOf(flat) ==
    [k \in 1..(Len(flat) \div 2) |-> [start |-> flat[2 * k - 1], end |-> flat[2 * k]]]

\* chunk_offsets with size left out of the delimiter-mode call
chunk_offsets_noSize(text, options) ==
    LET bytes == toBytes(text)
        r == IF Truthy(options.pattern)
             THEN wasmChunkOffsetsPattern(bytes, SizeOrDefault(options.size),
                      toBytes(options.pattern), options.prefix,
                      options.consecutive, options.forwardFallback)
             ELSE wasmChunkOffsets(bytes, UndefinedNum, options.delimiters,
                      options.prefix)
    IN [ok |-> r.ok, pairs |-> PairsOf(r.flat)]

\* chunk_offsets with prefix left out of the delimiter-mode call
chunk_offsets_noPrefix(text, options) ==
    LET bytes == toBytes(text)
        r == IF Truthy(options.pattern)
             THEN wasmChunkOffsetsPattern(bytes, SizeOrDefault(options.size),
                      toBytes(options.pattern), options.prefix,
                      options.consecutive, options.forwardFallback)
             ELSE wasmChunkOffsets(bytes, options.size, options.delimiters,
                      FALSE)
    IN [ok |-> r.ok, pairs |-> PairsOf(r.flat)]

\* chunk_offsets with delimiters left out of the delimiter-mode call
chunk_offsets_noDelimiters(text, options) ==
    LET bytes == toBytes(text)
        r == IF Truthy(options.pattern)
             THEN wasmChunkOffsetsPattern(bytes, SizeOrDefault(options.size),
                      toBytes(options.pattern), options.prefix,
                      options.consecutive, options.forwardFallback)
             ELSE wasmChunkOffsets(bytes, options.size, Undefined,
                      options.prefix)
    IN [ok |-> r.ok, pairs |-> PairsOf(r.flat)]

\* export function chunk_offsets(text, options)
chunk_offsets(text, options) ==
    LET bytes == toBytes(text)
        r == IF Truthy(options.pattern)
             THEN wasmChunkOffsetsPattern(bytes, SizeOrDefault(options.size),
                      toBytes(options.pattern), options.prefix,
                      options.consecutive, options.forwardFallback)
             ELSE wasmChunkOffsets(bytes, options.size, options.delimiters,
                      options.prefix)
    IN [ok |-> r.ok, pairs |-> PairsOf(r.flat)]

\* subarray starting one byte late
subarray_late(bytes, start, end) == SubSeq(bytes, start + 2, end)

\* bytes.subarray(flat[i], flat[i + 1])
subarray(bytes, start, end) == SubSeq(bytes, start + 1, end)

\* yield isString ? decoder.decode(slice) : slice
Slice(isString, bytes, start, end) ==
    IF isString THEN Str(decode(subarray(bytes, start, end)))
    ELSE U8(subarray(bytes, start, end))

\* export function* chunk(text, options), run to completion
chunk(text, options) ==
    LET bytes == toBytes(text)
        isString == text.type = "string"
        r == IF Truthy(options.pattern)
             THEN wasmChunkOffsetsPattern(bytes, SizeOrDefault(options.size),
                      toBytes(options.pattern), options.prefix,
                      options.consecutive, options.forwardFallback)
             ELSE wasmChunkOffsets(bytes, options.size, options.delimiters,
                      options.prefix)
    IN [ok |-> r.ok,
        slices |-> [k \in 1..(Len(r.flat) \div 2) |->
                      Slice(isString, bytes, r.flat[2 * k - 1], r.flat[2 * k])]]

\* class Chunker: constructor(text, options)
NoChunker == [status |-> "none", isString |-> FALSE, wasm |-> NoWasm]

\* Chunker_constructor with prefix left out of the with_pattern call
Chunker_constructor_noPrefix(text, options) ==
    LET bytes == toBytes(text)
        r == IF Truthy(options.pattern)
             THEN WasmWithPattern(bytes, SizeOrDefault(options.size),
                      toBytes(options.pattern), FALSE,
                      options.consecutive, options.forwardFallback)
             ELSE WasmNew(bytes, options.size, options.delimiters, options.prefix)
    IN IF r.ok
       THEN [status |-> "ok", isString |-> text.type = "string", wasm |-> r.wasm]
       ELSE [status |-> "error", isString |-> text.type = "string", wasm |-> NoWasm]

Chunker_constructor(text, options) ==
    LET bytes == toBytes(text)
        r == IF Truthy(options.pattern)
             THEN WasmWithPattern(bytes, SizeOrDefault(options.size),
                      toBytes(options.pattern), options.prefix,
                      options.consecutive, options.forwardFallback)
             ELSE WasmNew(bytes, options.size, options.delimiters, options.prefix)
    IN IF r.ok
       THEN [status |-> "ok", isString |-> text.type = "string", wasm |-> r.wasm]
       ELSE [status |-> "error", isString |-> text.type = "string", wasm |-> NoWasm]

\* Chunker_next that rewinds the engine when it has nothing left to return
Chunker_next_rewind(bytes, c) ==
    LET r == WasmNext(bytes, c.wasm)
    IN [chunker |-> [c EXCEPT !.wasm = IF r.chunk.some THEN r.wasm
                                       ELSE WasmReset(r.wasm)],
        chunk |-> r.chunk]

\* Chunker.next(): the engine's next(); undefined passes through.  chunk is
\* the view whose bytes are returned (decoded when the text was a string).
Chunker_next(bytes, c) ==
    LET r == WasmNext(bytes, c.wasm)
    IN [chunker |-> [c EXCEPT !.wasm = r.wasm], chunk |-> r.chunk]

\* Chunker_reset that never reaches the engine
Chunker_reset_noop(c) == c

\* iterator step whose loop tests !== null: undefined comes through as a chunk
Chunker_iterator_step_null(bytes, c) ==
    LET r == WasmNext(bytes, c.wasm)
    IN [chunker |-> [c EXCEPT !.wasm = r.wasm],
        chunk |-> IF r.chunk.some THEN r.chunk ELSE View(c.wasm.cursor, c.wasm.cursor),
        finished |-> FALSE]

\* Chunker[Symbol.iterator](): one turn of
\* while ((chunk = this._chunker.next()) !== undefined) yield ...
Chunker_iterator_step(bytes, c) ==
    LET r == WasmNext(bytes, c.wasm)
    IN [chunker |-> [c EXCEPT !.wasm = r.wasm], chunk |-> r.chunk,
        finished |-> ~r.chunk.some]

\* Chunker.reset()
Chunker_reset(c) == [c EXCEPT !.wasm = WasmReset(c.wasm)]

\* a generator that rewinds the Chunker when its loop is first entered
Generator_next_restart(bytes, c, state) ==
    LET r == Chunker_iterator_step(bytes, IF state = "fresh" THEN Chunker_reset(c) ELSE c)
    IN [chunker |-> r.chunker, chunk |-> r.chunk,
        state |-> IF r.finished THEN "completed" ELSE "suspended"]

\* next() on a generator obtained from chunker[Symbol.iterator]() that has
\* not completed: one turn of the while loop on the Chunker's own handle
Generator_next(bytes, c, state) ==
    LET r == Chunker_iterator_step(bytes, c)
    IN [chunker |-> r.chunker, chunk |-> r.chunk,
        state |-> IF r.finished THEN "completed" ELSE "suspended"]

\* Chunker_collectOffsets that rewinds before collecting
Chunker_collectOffsets_fromStart(bytes, c) ==
    LET r == WasmCollectOffsets(bytes, WasmReset(c.wasm))
    IN [chunker |-> [c EXCEPT !.wasm = r.wasm], pairs |-> PairsOf(r.flat)]

\* Chunker.collectOffsets()
Chunker_collectOffsets(bytes, c) ==
    LET r == WasmCollectOffsets(bytes, c.wasm)
    IN [chunker |-> [c EXCEPT !.wasm = r.wasm], pairs |-> PairsOf(r.flat)]

(***************************************************************************)
(* Inputs drawn by the model.                                              *)
(***************************************************************************)
Chars == {97, 46, 233}          \* "a", ".", "e" with acute accent (2 bytes in UTF-8)
RawBytes == {46, 169}           \* ".", a lone continuation byte

SeqsUpTo(S, n) == UNION {[1..k -> S] : k \in 0..n}

Texts ==
    {Str(s) : s \in SeqsUpTo(Chars, MaxLen)} \cup {U8(b) : b \in SeqsUpTo(RawBytes, MaxLen)}

Sizes == {UndefinedNum} \cup {Num(n) : n \in 0..MaxSize}
DelimiterOptions == {Undefined, Str(<<97>>)}
PatternOptions == {Undefined, Str(<<233>>)}
EmptyPatterns == {Str(<<>>), U8(<<>>)}

\* every combination of mode and flags, and the empty patterns with each
\* size, delimiter option and prefix
Options ==
    [size : Sizes, delimiters : DelimiterOptions, pattern : PatternOptions,
     prefix : BOOLEAN, consecutive : BOOLEAN, forwardFallback : BOOLEAN]
    \cup
    [size : Sizes, delimiters : DelimiterOptions, pattern : EmptyPatterns,
     prefix : BOOLEAN, consecutive : {FALSE}, forwardFallback : {FALSE}]

(***************************************************************************)
(* State.                                                                  *)
(*   text, options  the arguments of the calls                             *)
(*   chunker        the Chunker object (status "none" before new Chunker,  *)
(*                  "error" when the constructor threw)                    *)
(*   yielded        views returned by next() and by for...of turns since   *)
(*                  construction or reset                                  *)
(*   done           the last next() returned undefined / the last for...of *)
(*                  turn ended the loop, and no reset() came since         *)
(*   collected      result of the last collectOffsets() since construction *)
(*                  or reset, with the number of views yielded before it   *)
(*   wasReset       reset() has been called                                *)
(*   batch          result of the last chunk_offsets / chunk call          *)
(*   pair           two more Chunker objects over the same text, each with *)
(*                  its options and the ranges it has delivered            *)
(*   gens           the generator objects obtained from Symbol.iterator    *)
(*   initialized    the module-level flag of init()                        *)
(*   initPc         where each init() call stands                          *)
(*   initWasmCalls  how often initWasm has been invoked                    *)
(***************************************************************************)
VARIABLES text, options, chunker, yielded, done, collected, wasReset, batch,
          pair, gens, initialized, initPc, initWasmCalls

vars == <<text, options, chunker, yielded, done, collected, wasReset, batch,
          pair, gens, initialized, initPc, initWasmCalls>>

\* the state the single-Chunker actions leave alone
later == <<pair, gens, initialized, initPc, initWasmCalls>>

MaxGenerators == 2   \* generator objects drawn from one Chunker
MaxCallers == 4      \* init() calls in flight

Instances == {1, 2}
Generators == 1..MaxGenerators
Callers == 1..MaxCallers

NoOptions ==
    [size |-> UndefinedNum, delimiters |-> Undefined, pattern |-> Undefined,
     prefix |-> FALSE, consecutive |-> FALSE, forwardFallback |-> FALSE]
NoPair == [i \in Instances |-> [options |-> NoOptions, chunker |-> NoChunker,
                                delivered |-> <<>>]]
NoGens == [g \in Generators |-> "fresh"]

\* nothing but the one Chunker and the batch calls is in use
LaterIdle ==
    /\ pair = NoPair
    /\ gens = NoGens
    /\ initialized = FALSE
    /\ initPc = [c \in Callers |-> "idle"]
    /\ initWasmCalls = 0

NoCollected == [called |-> FALSE, from |-> 0, again |-> FALSE, pairs |-> <<>>]
NoBatch == [fn |-> "none", ok |-> FALSE, pairs |-> <<>>, slices |-> <<>>]

Init ==
    /\ text \in Texts
    /\ options \in Options
    /\ chunker = NoChunker
    /\ yielded = <<>>
    /\ done = FALSE
    /\ collected = NoCollected
    /\ wasReset = FALSE
    /\ batch = NoBatch
    /\ LaterIdle

\* new Chunker(text, options)
Construct ==
    /\ chunker.status = "none"
    /\ chunker' = Chunker_constructor(text, options)
    /\ UNCHANGED <<text, options, yielded, done, collected, wasReset, batch>>
    /\ UNCHANGED later

\* chunker.next()
Next_ ==
    /\ chunker.status = "ok"
    /\ LET r == Chunker_next(toBytes(text), chunker)
       IN /\ chunker' = r.chunker
          /\ yielded' = IF r.chunk.some
                        THEN Append(yielded, [start |-> r.chunk.start, end |-> r.chunk.end])
                        ELSE yielded
          /\ done' = ~r.chunk.some
    /\ UNCHANGED <<text, options, collected, wasReset, batch>>
    /\ UNCHANGED later

\* one turn of for (const slice of chunker): a chunk is yielded, or the loop ends
IterStep ==
    /\ chunker.status = "ok"
    /\ LET r == Chunker_iterator_step(toBytes(text), chunker)
       IN /\ chunker' = r.chunker
          /\ yielded' = IF r.finished THEN yielded
                        ELSE Append(yielded, [start |-> r.chunk.start, end |-> r.chunk.end])
          /\ done' = r.finished
    /\ UNCHANGED <<text, options, collected, wasReset, batch>>
    /\ UNCHANGED later

\* chunker.reset()
Reset ==
    /\ chunker.status = "ok"
    /\ chunker' = Chunker_reset(chunker)
    /\ yielded' = <<>>
    /\ done' = FALSE
    /\ collected' = NoCollected
    /\ wasReset' = TRUE
    /\ UNCHANGED <<text, options, batch>>
    /\ UNCHANGED later

\* chunker.collectOffsets()
CollectOffsets ==
    /\ chunker.status = "ok"
    /\ LET r == Chunker_collectOffsets(toBytes(text), chunker)
       IN /\ chunker' = r.chunker
          /\ collected' = [called |-> TRUE, from |-> Len(yielded),
                           again |-> collected.called, pairs |-> r.pairs]
    /\ UNCHANGED <<text, options, yielded, done, wasReset, batch>>
    /\ UNCHANGED later

\* chunk_offsets(text, options)
CallChunkOffsets ==
    /\ LET r == chunk_offsets(text, options)
       IN batch' = [fn |-> "chunk_offsets", ok |-> r.ok, pairs |-> r.pairs,
                    slices |-> <<>>]
    /\ UNCHANGED <<text, options, chunker, yielded, done, collected, wasReset>>
    /\ UNCHANGED later

\* [...chunk(text, options)]
CallChunk ==
    /\ LET r == chunk(text, options)
       IN batch' = [fn |-> "chunk", ok |-> r.ok, pairs |-> <<>>, slices |-> r.slices]
    /\ UNCHANGED <<text, options, chunker, yielded, done, collected, wasReset>>
    /\ UNCHANGED later

(***************************************************************************)
(* Two Chunker objects over the same text.                                 *)
(***************************************************************************)
PairTexts == {Str(s) : s \in [1..MaxLen -> Chars]}
PairOptions ==
    [size : {Num(1), Num(MaxSize)}, delimiters : {Undefined},
     pattern : PatternOptions, prefix : BOOLEAN, consecutive : {FALSE},
     forwardFallback : {FALSE}]

\* this._chunker kept in one module-level variable shared by all instances
SetChunker_shared(p, i, c, d) ==
    [j \in DOMAIN p |-> [p[j] EXCEPT !.chunker = c, !.delivered = d]]

\* this._chunker = ... on instance i, with the ranges i has handed out
SetChunker(p, i, c, d) == [p EXCEPT ![i].chunker = c, ![i].delivered = d]

InitPair ==
    /\ text \in PairTexts
    /\ options = NoOptions
    /\ chunker = NoChunker
    /\ yielded = <<>>
    /\ done = FALSE
    /\ collected = NoCollected
    /\ wasReset = FALSE
    /\ batch = NoBatch
    /\ pair \in [Instances -> {[options |-> o, chunker |-> NoChunker, delivered |-> <<>>] :
                                 o \in PairOptions}]
    /\ gens = NoGens
    /\ initialized = FALSE
    /\ initPc = [c \in Callers |-> "idle"]
    /\ initWasmCalls = 0

single == <<text, options, chunker, yielded, done, collected, wasReset, batch>>

\* instance i : new Chunker(text, options_i)
PairConstruct(i) ==
    /\ pair[i].chunker.status = "none"
    /\ pair' = SetChunker(pair, i, Chunker_constructor(text, pair[i].options), <<>>)
    /\ UNCHANGED <<single, gens, initialized, initPc, initWasmCalls>>

\* instance i : next()
PairNext(i) ==
    /\ pair[i].chunker.status = "ok"
    /\ LET r == Chunker_next(toBytes(text), pair[i].chunker)
       IN pair' = SetChunker(pair, i, r.chunker,
                     IF r.chunk.some
                     THEN Append(pair[i].delivered,
                                 [start |-> r.chunk.start, end |-> r.chunk.end])
                     ELSE pair[i].delivered)
    /\ UNCHANGED <<single, gens, initialized, initPc, initWasmCalls>>

\* instance i : reset()
PairReset(i) ==
    /\ pair[i].chunker.status = "ok"
    /\ pair' = SetChunker(pair, i, Chunker_reset(pair[i].chunker), <<>>)
    /\ UNCHANGED <<single, gens, initialized, initPc, initWasmCalls>>

\* instance i : collectOffsets()
PairCollectOffsets(i) ==
    /\ pair[i].chunker.status = "ok"
    /\ LET r == Chunker_collectOffsets(toBytes(text), pair[i].chunker)
       IN pair' = SetChunker(pair, i, r.chunker, pair[i].delivered \o r.pairs)
    /\ UNCHANGED <<single, gens, initialized, initPc, initWasmCalls>>

(***************************************************************************)
(* init(): each caller c is one call of the async function.               *)
(*   "idle"      not called yet                                            *)
(*   "awaiting"  suspended at await initWasm()                             *)
(*   "resolved"  the promise resolved                                      *)
(*   "rejected"  initWasm() rejected and the call threw                    *)
(***************************************************************************)
InitLoader ==
    /\ text = Str(<<>>)
    /\ options = NoOptions
    /\ chunker = NoChunker
    /\ yielded = <<>>
    /\ done = FALSE
    /\ collected = NoCollected
    /\ wasReset = FALSE
    /\ batch = NoBatch
    /\ LaterIdle

\* init() up to its first suspension: if (!initialized) { await initWasm(); ...
InitCall(c) ==
    /\ initPc[c] = "idle"
    /\ IF ~initialized
       THEN /\ initWasmCalls' = initWasmCalls + 1
            /\ initPc' = [initPc EXCEPT ![c] = "awaiting"]
       ELSE /\ initWasmCalls' = initWasmCalls
            /\ initPc' = [initPc EXCEPT ![c] = "resolved"]
    /\ UNCHANGED <<single, pair, gens, initialized>>

\* initWasm() resolved: ... initialized = true; }
InitResume(c) ==
    /\ initPc[c] = "awaiting"
    /\ initialized' = TRUE
    /\ initPc' = [initPc EXCEPT ![c] = "resolved"]
    /\ UNCHANGED <<single, pair, gens, initWasmCalls>>

\* initWasm() rejected: the await throws and initialized stays as it is
InitThrow(c) ==
    /\ initPc[c] = "awaiting"
    /\ initPc' = [initPc EXCEPT ![c] = "rejected"]
    /\ UNCHANGED <<single, pair, gens, initialized, initWasmCalls>>

(***************************************************************************)
(* Generators obtained from chunker[Symbol.iterator](), next to next().    *)
(*   "fresh"      created, loop not entered                                *)
(*   "suspended"  stopped at a yield                                       *)
(*   "completed"  the loop has ended; further next() calls on it return    *)
(*                done without reaching the Chunker                        *)
(***************************************************************************)
IterOptions ==
    [size : {Num(1), Num(MaxSize)}, delimiters : {Undefined},
     pattern : PatternOptions, prefix : BOOLEAN, consecutive : BOOLEAN,
     forwardFallback : BOOLEAN]

InitIter ==
    /\ text \in PairTexts
    /\ options \in IterOptions
    /\ chunker = NoChunker
    /\ yielded = <<>>
    /\ done = FALSE
    /\ collected = NoCollected
    /\ wasReset = FALSE
    /\ batch = NoBatch
    /\ LaterIdle

\* generator g : next()
GenStep(g) ==
    /\ chunker.status = "ok"
    /\ gens[g] # "completed"
    /\ LET r == Generator_next(toBytes(text), chunker, gens[g])
       IN /\ chunker' = r.chunker
          /\ gens' = [gens EXCEPT ![g] = r.state]
          /\ yielded' = IF r.chunk.some
                        THEN Append(yielded, [start |-> r.chunk.start, end |-> r.chunk.end])
                        ELSE yielded
          /\ done' = ~r.chunk.some
    /\ UNCHANGED <<text, options, collected, wasReset, batch>>
    /\ UNCHANGED <<pair, initialized, initPc, initWasmCalls>>

\* the documented examples: "Hello<U+2581>World<U+2581>Test" with pattern
\* "<U+2581>" (3 bytes in UTF-8)
Metaspace == 9601
HelloWorldTest ==
    Str(<<72, 101, 108, 108, 111, Metaspace, 87, 111, 114, 108, 100, Metaspace,
          84, 101, 115, 116>>)
\* "a..b" (design, scenario C) and "Hello. World. Test." (design, scenario A)
ADotDotB == Str(<<97, 46, 46, 98>>)
HelloDotWorldDotTest ==
    Str(<<72, 101, 108, 108, 111, 46, 32, 87, 111, 114, 108, 100, 46, 32,
          84, 101, 115, 116, 46>>)
ScenarioTexts == {HelloWorldTest, ADotDotB, HelloDotWorldDotTest}
ScenarioOptions ==
    [size : {UndefinedNum, Num(1), Num(7), Num(8), Num(10)}, delimiters : {Undefined, Str(<<46>>)},
     pattern : {Undefined, Str(<<Metaspace>>)},
     prefix : BOOLEAN, consecutive : BOOLEAN, forwardFallback : BOOLEAN]

InitScenario ==
    /\ text \in ScenarioTexts
    /\ options \in ScenarioOptions
    /\ chunker = NoChunker
    /\ yielded = <<>>
    /\ done = FALSE
    /\ collected = NoCollected
    /\ wasReset = FALSE
    /\ batch = NoBatch
    /\ LaterIdle

\* one Chunker object driven by its caller
Next == Construct \/ Next_ \/ IterStep \/ Reset \/ CollectOffsets

Spec == Init /\ [][Next]_vars

\* the batch entry points called on the same arguments
NextBatch == CallChunkOffsets \/ CallChunk

SpecBatch == Init /\ [][NextBatch]_vars

\* the documented examples, through the batch entry points
SpecScenario == InitScenario /\ [][NextBatch]_vars

\* two Chunker objects driven in any interleaving
NextPair ==
    \E i \in Instances :
        PairConstruct(i) \/ PairNext(i) \/ PairReset(i) \/ PairCollectOffsets(i)

SpecPair == InitPair /\ [][NextPair]_vars

\* init() called by several callers, interleaved at the await
NextLoader == \E c \in Callers : InitCall(c) \/ InitResume(c) \/ InitThrow(c)

SpecLoader == InitLoader /\ [][NextLoader]_vars

\* one Chunker driven through next() and through its generators
NextIter == Construct \/ Next_ \/ Reset \/ \E g \in Generators : GenStep(g)

SpecIter == InitIter /\ [][NextIter]_vars

\* the batch entry points on every small input and on the documented examples
SpecBatchExamples == (Init \/ InitScenario) /\ [][NextBatch]_vars

(***************************************************************************)
(* Properties.                                                             *)
(***************************************************************************)
buffer == toBytes(text)
BufLen == Len(buffer)
Range(f) == {f[i] : i \in DOMAIN f}

RECURSIVE Concat(_)
Concat(ss) == IF ss = <<>> THEN <<>> ELSE Head(ss).data \o Concat(Tail(ss))

\* the ranges r, in order, tile [0, n): no gap, no overlap, nothing past n
Tiles(r, n) ==
    /\ \A i \in 1..Len(r) : r[i].end <= n
    /\ \A i \in 1..(Len(r) - 1) : r[i].end = r[i + 1].start
    /\ IF r = <<>> THEN n = 0 ELSE r[1].start = 0 /\ r[Len(r)].end = n

\* a fresh Chunker driven by next() until it returns undefined
RECURSIVE Exhaust(_, _)
Exhaust(bytes, c) ==
    LET r == Chunker_next(bytes, c)
    IN IF r.chunk.some
       THEN <<[start |-> r.chunk.start, end |-> r.chunk.end]>> \o Exhaust(bytes, r.chunker)
       ELSE <<>>
FreshPass == Exhaust(buffer, Chunker_constructor(text, options))

\* the chunker has only been driven by next() since construction or reset
\* and the last next() returned undefined
PassComplete == chunker.status = "ok" /\ done /\ ~collected.called

\* C1 (coverage): whenever a batch entry point accepts the configuration,
\* the ranges chunk_offsets returns tile the buffer exactly (first start 0,
\* each end the next start, last end len(buffer), every end <= len(buffer)),
\* and the slices chunk yields for a byte array concatenate to the array.
C1_Coverage ==
    /\ (batch.fn = "chunk_offsets" /\ batch.ok) => Tiles(batch.pairs, BufLen)
    /\ (batch.fn = "chunk" /\ batch.ok /\ text.type = "bytes")
          => Concat(batch.slices) = buffer
C1_Witness ==
    /\ batch.fn = "chunk_offsets" /\ batch.ok
    /\ Len(batch.pairs) >= 3
    /\ Truthy(options.pattern) /\ options.prefix /\ options.consecutive
    /\ options.forwardFallback

\* C2 (batch/iterator equivalence): a freshly constructed Chunker driven by
\* next() to exhaustion has yielded exactly the list chunk_offsets returns
\* for the same text and options, and the constructor throws exactly when
\* chunk_offsets throws.
C2_BatchIteratorEquivalence ==
    /\ (PassComplete /\ ~wasReset) => yielded = chunk_offsets(text, options).pairs
    /\ chunker.status = "ok" => chunk_offsets(text, options).ok
    /\ chunker.status = "error" => ~chunk_offsets(text, options).ok
C2_Witness ==
    /\ PassComplete /\ ~wasReset
    /\ Len(yielded) >= 2
    /\ Truthy(options.pattern) /\ options.prefix

\* C3 (reset determinism): right after reset() the cursor is 0 and the
\* chunker is Active, and a pass driven to exhaustion after a reset yields
\* the sequence a freshly constructed Chunker yields.
C3_ResetDeterminism ==
    /\ (chunker.status = "ok" /\ wasReset /\ yielded = <<>> /\ ~done /\ ~collected.called)
          => chunker.wasm.cursor = 0 /\ ~chunker.wasm.exhausted
    /\ (PassComplete /\ wasReset) => yielded = FreshPass
C3_Witness ==
    /\ PassComplete /\ wasReset
    /\ Len(yielded) >= 2

\* C4 (termination): every chunk next() or a for...of turn returns moves
\* the cursor at least one byte forward and never past the end, so a pass
\* returns at most len(buffer) chunks; with the cursor at the end of a
\* non-empty buffer the chunker is Exhausted, the next call of next()
\* returns undefined and a for...of loop ends.
C4_Termination ==
    chunker.status = "ok" =>
        /\ Len(yielded) <= chunker.wasm.cursor
        /\ chunker.wasm.cursor <= BufLen
        /\ Len(yielded) <= BufLen
        /\ (BufLen > 0 /\ chunker.wasm.cursor = BufLen) => chunker.wasm.exhausted
        /\ chunker.wasm.exhausted
              => /\ ~Chunker_next(buffer, chunker).chunk.some
                 /\ Chunker_iterator_step(buffer, chunker).finished
C4_Witness ==
    /\ PassComplete
    /\ BufLen >= 3
    /\ Len(yielded) = BufLen

\* the configuration the binding hands to the engine for these options
ConfigOf(opts) ==
    IF Truthy(opts.pattern)
    THEN PatternConfig(SizeOrDefault(opts.size), toBytes(opts.pattern), opts.prefix,
                       opts.consecutive, opts.forwardFallback)
    ELSE DelimiterConfig(opts.size, opts.delimiters, opts.prefix)

Supplied(v) == v.type # "undefined"

\* options the design accepts: one mode only, and no empty pattern
ValidOptions ==
    Supplied(options.pattern)
        => ~Supplied(options.delimiters) /\ Len(options.pattern.data) > 0

\* C5 (mutual exclusion): with both delimiters and pattern supplied the
\* constructor fails and no Chunker exists.
C5_MutualExclusion ==
    (Supplied(options.delimiters) /\ Supplied(options.pattern))
        => chunker.status # "ok"

\* C6 (empty pattern rejected): with a pattern supplied and of length zero
\* (empty string or empty byte array) the constructor fails.
C6_EmptyPatternRejected ==
    (Supplied(options.pattern) /\ Len(options.pattern.data) = 0)
        => chunker.status # "ok"

\* offset e lies strictly inside a multi-byte sequence of the buffer
InsideSequence(e) == e > 0 /\ e < BufLen /\ IsContinuation(buffer[e + 1])

\* the range was cut at start + targetSize because its window held no
\* delimiter (4.3 step 4)
HardCut(pr, cfg) ==
    /\ pr.end = pr.start + cfg.targetSize
    /\ pr.end < BufLen
    /\ \A p \in pr.start..pr.end : ~Occurs(buffer, cfg, p)

Utf8DelimiterCase ==
    /\ batch.ok
    /\ text.type = "string"
    /\ ~Supplied(options.pattern)
    /\ \A d \in ConfigOf(options).cfg.delims : d < 128

\* C7 as stated (UTF-8 safety): for a string (valid UTF-8) chunked in
\* delimiter mode with ASCII delimiters, no boundary offset lies inside a
\* multi-byte sequence and no chunk decodes with a replacement character.
C7_Utf8Safety ==
    /\ (batch.fn = "chunk_offsets" /\ Utf8DelimiterCase)
          => \A i \in 1..Len(batch.pairs) : ~InsideSequence(batch.pairs[i].end)
    /\ (batch.fn = "chunk" /\ Utf8DelimiterCase)
          => \A i \in 1..Len(batch.slices) : REPLACEMENT \notin Range(batch.slices[i].data)

\* C7 amended: in that case a boundary offset lies inside a multi-byte
\* sequence only where a range was hard-cut at start + targetSize (its
\* window held no delimiter), and a chunk decodes with a replacement
\* character only if it starts or ends at such a hard cut.
C7_Utf8SafetyExceptHardCut ==
    LET cfg == ConfigOf(options).cfg
        pairs == chunk_offsets(text, options).pairs
    IN /\ (batch.fn = "chunk_offsets" /\ Utf8DelimiterCase)
             => \A i \in 1..Len(batch.pairs) :
                   InsideSequence(batch.pairs[i].end) => HardCut(batch.pairs[i], cfg)
       /\ (batch.fn = "chunk" /\ Utf8DelimiterCase)
             => \A i \in 1..Len(batch.slices) :
                   REPLACEMENT \in Range(batch.slices[i].data)
                      => \/ HardCut(pairs[i], cfg)
                         \/ i > 1 /\ HardCut(pairs[i - 1], cfg)
C7_Witness ==
    /\ batch.fn = "chunk" /\ Utf8DelimiterCase
    /\ 233 \in Range(text.data)
    /\ Len(batch.slices) >= 2
    /\ \A i \in 1..Len(batch.slices) : REPLACEMENT \notin Range(batch.slices[i].data)
    /\ \E i \in 1..Len(batch.slices) : 233 \in Range(batch.slices[i].data)

SuffixFrom(s, k) == SubSeq(s, k + 1, Len(s))

CollectedRemainder ==
    /\ collected.pairs = SuffixFrom(FreshPass, collected.from)
    /\ chunker.wasm.exhausted
    /\ chunker.wasm.cursor = BufLen
    /\ ~Chunker_next(buffer, chunker).chunk.some

C9_NoDelimiterFallback ==
    LET cfg == ConfigOf(options).cfg
        n == Len(batch.pairs)
    IN (/\ batch.fn = "chunk_offsets" /\ batch.ok
        /\ ConfigOf(options).ok
        /\ ~options.forwardFallback
        /\ \A p \in 0..(BufLen - 1) : ~Occurs(buffer, cfg, p))
       => /\ \A i \in 1..(n - 1) :
                batch.pairs[i].end - batch.pairs[i].start = cfg.targetSize
          /\ n > 0 => /\ batch.pairs[n].end - batch.pairs[n].start >= 1
                      /\ batch.pairs[n].end - batch.pairs[n].start <= cfg.targetSize
C9_Witness ==
    /\ batch.fn = "chunk_offsets" /\ batch.ok
    /\ ~options.forwardFallback
    /\ \A p \in 0..(BufLen - 1) : ~Occurs(buffer, ConfigOf(options).cfg, p)
    /\ Len(batch.pairs) >= 3
    /\ batch.pairs[Len(batch.pairs)].end - batch.pairs[Len(batch.pairs)].start
          < ConfigOf(options).cfg.targetSize

PatternPrefixCase ==
    /\ batch.fn = "chunk" /\ batch.ok
    /\ text = HelloWorldTest
    /\ options.pattern = Str(<<Metaspace>>)
    /\ options.prefix

Hello == Str(<<72, 101, 108, 108, 111>>)
MetaWorld == Str(<<Metaspace, 87, 111, 114, 108, 100>>)
MetaTest == Str(<<Metaspace, 84, 101, 115, 116>>)

\* C10 as stated (pattern + prefix): "Hello<P>World<P>Test" with pattern P,
\* prefix = true and the size left at its default yields exactly "Hello",
\* "<P>World", "<P>Test".
C10_PatternPrefixSplitsEverywhere ==
    (PatternPrefixCase /\ options.size.type = "undefined")
        => batch.slices = <<Hello, MetaWorld, MetaTest>>

\* C10 amended: with the size left at its default the whole buffer is one
\* chunk; with size 8 (each window reaches the next occurrence) the chunks
\* are "Hello", "<P>World", "<P>Test", the pattern opening each chunk after
\* the first.
C10_PatternPrefixWithinSize ==
    /\ (PatternPrefixCase /\ options.size.type = "undefined")
          => batch.slices = <<HelloWorldTest>>
    /\ (PatternPrefixCase /\ options.size.type = "number" /\ options.size.num = 8)
          => batch.slices = <<Hello, MetaWorld, MetaTest>>
C10_Witness ==
    /\ PatternPrefixCase
    /\ options.size.type = "undefined"
    /\ Len(batch.slices) = 1

\* the call ran in delimiter mode with the delimiters the caller gave
DelimiterCase ==
    /\ batch.fn = "chunk_offsets" /\ batch.ok
    /\ ~Supplied(options.pattern)
    /\ Supplied(options.delimiters)

\* both the byte before offset e and the byte at e are delimiters
BetweenDelimiters(e) ==
    /\ e > 0 /\ e < BufLen
    /\ IsDelimiter(buffer[e], ConfigOf(options).cfg.delims)
    /\ IsDelimiter(buffer[e + 1], ConfigOf(options).cfg.delims)

\* C11 (consecutive collapsing, delimiter mode): with consecutive = true no
\* range ends between two adjacent delimiter bytes, and "a..b" with
\* delimiters ".", prefix = false and a size that holds the whole buffer
\* gives exactly the ranges of "a" and "..b".
C11_ConsecutiveCollapses ==
    (DelimiterCase /\ options.consecutive)
        => /\ \A i \in DOMAIN batch.pairs : ~BetweenDelimiters(batch.pairs[i].end)
           /\ (/\ text = ADotDotB /\ ~options.prefix
               /\ ConfigOf(options).cfg.targetSize >= BufLen)
                 => batch.pairs = <<[start |-> 0, end |-> 1], [start |-> 1, end |-> 4]>>

\* delimiter offsets of the backward window [start, start + targetSize]
WindowDelimiters(start) ==
    LET cfg == ConfigOf(options).cfg
    IN {p \in start..MinOf(start + cfg.targetSize, BufLen - 1) :
          IsDelimiter(buffer[p + 1], cfg.delims)}

\* the call ran in delimiter mode without prefix and without consecutive
PlainDelimiterCase ==
    /\ batch.fn = "chunk_offsets" /\ batch.ok
    /\ ~Supplied(options.pattern)
    /\ ~options.prefix /\ ~options.consecutive

\* C12 (tie-break toward the limit): in delimiter mode with prefix = false
\* and consecutive = false, a range whose limit start + targetSize lies
\* before the end of the buffer and whose window holds a delimiter ends
\* right after the delimiter of greatest index in the window; "Hello. World.
\* Test." with size 10 gives (0,6), (6,13), (13,19).
C12_TieBreakTowardLimit ==
    PlainDelimiterCase
        => /\ \A i \in DOMAIN batch.pairs :
                LET pr == batch.pairs[i]
                IN (/\ pr.start + ConfigOf(options).cfg.targetSize < BufLen
                    /\ WindowDelimiters(pr.start) # {})
                      => pr.end = Max(WindowDelimiters(pr.start)) + 1
           /\ (text = HelloDotWorldDotTest /\ options.size = Num(10))
                 => batch.pairs = <<[start |-> 0, end |-> 6], [start |-> 6, end |-> 13],
                                    [start |-> 13, end |-> 19]>>
\* a window with two delimiters to choose from
C12_Witness ==
    /\ PlainDelimiterCase
    /\ \E i \in DOMAIN batch.pairs :
          /\ batch.pairs[i].start + ConfigOf(options).cfg.targetSize < BufLen
          /\ Cardinality(WindowDelimiters(batch.pairs[i].start)) >= 2
          /\ batch.pairs[i].end < BufLen

\* what instance i hands out when it runs alone
SoloPass(i) == Exhaust(buffer, Chunker_constructor(text, pair[i].options))

\* instance i stands where a solo run stands after the ranges i has handed
\* out since construction or reset
AsIfAlone(i) ==
    LET d == pair[i].delivered
        w == pair[i].chunker.wasm
    IN pair[i].chunker.status = "ok"
         => /\ Len(d) <= Len(SoloPass(i))
            /\ d = SubSeq(SoloPass(i), 1, Len(d))
            /\ w.cursor = IF d = <<>> THEN 0 ELSE d[Len(d)].end
            /\ w.exhausted => w.cursor = BufLen

\* C13 (instance isolation): with two Chunkers over the same text, a call on
\* one changes neither the other's cursor and exhausted flag nor the text,
\* and each instance hands out the ranges it hands out when run alone.
C13_InstanceIsolation ==
    /\ [](\A i \in Instances : AsIfAlone(i))
    /\ [][/\ text' = text
          /\ \A i, j \in Instances :
                (i # j /\ pair'[i] # pair[i]) => pair'[j] = pair[j]]_vars
\* both instances part-way through their passes, at different cursors and
\* with different configurations
C13_Witness ==
    /\ pair[1].options # pair[2].options
    /\ Len(pair[1].delivered) >= 2
    /\ Len(pair[2].delivered) = 1
    /\ pair[1].chunker.wasm.cursor # pair[2].chunker.wasm.cursor
    /\ ~pair[1].chunker.wasm.exhausted /\ ~pair[2].chunker.wasm.exhausted

\* C14 (exhausted is absorbing until reset): once next() has returned
\* undefined, every later step other than reset() leaves the Chunker
\* returning undefined with the cursor where it was and hands out no further
\* range; and an exhausted Chunker has its cursor at len(buffer).
C14_ExhaustedAbsorbing ==
    /\ [](chunker.wasm.exhausted => chunker.wasm.cursor = BufLen)
    /\ [][(done /\ ~Reset)
             => /\ done'
                /\ chunker'.wasm.cursor = chunker.wasm.cursor
                /\ chunker'.wasm.exhausted
                /\ yielded' = yielded]_vars
\* next() has returned undefined after a pass of several ranges, and a
\* collectOffsets() called at that point had nothing to return
C14_Witness ==
    /\ done /\ chunker.wasm.exhausted
    /\ Len(yielded) >= 2
    /\ collected.called /\ collected.from = Len(yielded) /\ collected.pairs = <<>>

NonEmpty(r) == \A i \in DOMAIN r : r[i].start < r[i].end

\* the split computed for the range pr is its own start: the occurrence the
\* backward scan picks is placed (prefix, run start) at the cursor
SplitAtCursor(pr, cfg) ==
    LET limit == pr.start + cfg.targetSize
        back == FindBackward(buffer, cfg, pr.start, limit)
    IN /\ limit < BufLen
       /\ back # NotFound
       /\ PlaceSplit(buffer, cfg, pr.start, back) = pr.start

\* C15 (forced progress): every range handed out by next(), a for...of turn,
\* collectOffsets() or chunk_offsets is non-empty, for every configuration;
\* a range whose computed split is its own start ends one byte further.
C15_ForcedProgress ==
    /\ NonEmpty(yielded) /\ NonEmpty(collected.pairs)
    /\ (chunker.status = "ok" /\ yielded = <<>> /\ ~collected.called /\ ~done)
          => NonEmpty(chunk_offsets(text, options).pairs)
    /\ chunker.status = "ok"
          => \A i \in DOMAIN yielded :
                SplitAtCursor(yielded[i], chunker.wasm.cfg)
                    => yielded[i].end = yielded[i].start + 1
\* with prefix and consecutive, a run of occurrences starts at the cursor
\* and the window reaches past its first occurrence
C15_Witness ==
    /\ chunker.status = "ok"
    /\ chunker.wasm.cfg.prefix /\ chunker.wasm.cfg.consecutive
    /\ chunker.wasm.cfg.targetSize >= 2
    /\ \E i \in DOMAIN yielded :
          /\ SplitAtCursor(yielded[i], chunker.wasm.cfg)
          /\ FindBackward(buffer, chunker.wasm.cfg, yielded[i].start,
                          yielded[i].start + chunker.wasm.cfg.targetSize)
                > yielded[i].start
          /\ yielded[i].end = yielded[i].start + 1

\* the window [start, start + targetSize] of the range pr holds no boundary
\* and a boundary starts further on
OnlyAhead(pr, cfg) ==
    /\ pr.start + cfg.targetSize < BufLen
    /\ FindBackward(buffer, cfg, pr.start, pr.start + cfg.targetSize) = NotFound
    /\ FindForward(buffer, cfg, pr.start + cfg.targetSize) # NotFound

\* C16 (forward fallback): with forwardFallback = true, a range whose window
\* holds no boundary while one occurs at limit + 1 or later ends at the first
\* such boundary (after it without prefix, before it with prefix), in
\* delimiter mode as in pattern mode.
C16_ForwardFallback ==
    (batch.fn = "chunk_offsets" /\ batch.ok /\ ValidOptions /\ options.forwardFallback)
        => \A i \in DOMAIN batch.pairs :
              LET pr == batch.pairs[i]
                  cfg == ConfigOf(options).cfg
                  fwd == FindForward(buffer, cfg, pr.start + cfg.targetSize)
              IN OnlyAhead(pr, cfg)
                   => pr.end = IF options.prefix THEN fwd ELSE fwd + Width(cfg)

\* C17 (one-time initialisation): over any number of init() calls in any
\* interleaving, initWasm is invoked at most once, and once an init() has
\* resolved no later init() invokes initWasm.
C17_OneTimeInit ==
    /\ [](initWasmCalls <= 1)
    /\ [][initialized => initWasmCalls' = initWasmCalls]_vars

\* the call ran in delimiter mode and the caller did not ask for the
\* forward fallback
NoFallbackDelimiterCase ==
    /\ batch.fn = "chunk_offsets" /\ batch.ok
    /\ ~Supplied(options.pattern)
    /\ ~options.forwardFallback

\* C18 as stated (target size is an upper bound): in delimiter mode with
\* forwardFallback = false every range has end - start <= targetSize, also
\* with a delimiter exactly at start + targetSize.
C18_WithinTargetSize ==
    NoFallbackDelimiterCase
        => \A i \in DOMAIN batch.pairs :
              batch.pairs[i].end - batch.pairs[i].start
                  <= ConfigOf(options).cfg.targetSize

\* C18 amended: with prefix = true every range has end - start <=
\* targetSize; with prefix = false every range has end - start <=
\* targetSize + 1, and the length targetSize + 1 occurs only for a range
\* closed by a delimiter at index start + targetSize.
C18_WithinTargetSizePlusDelimiter ==
    NoFallbackDelimiterCase
        => \A i \in DOMAIN batch.pairs :
              LET pr == batch.pairs[i]
                  cfg == ConfigOf(options).cfg
              IN /\ options.prefix => pr.end - pr.start <= cfg.targetSize
                 /\ pr.end - pr.start <= cfg.targetSize + 1
                 /\ pr.end - pr.start = cfg.targetSize + 1
                       => IsDelimiter(buffer[pr.end], cfg.delims)
\* a range one byte longer than the target size, closed by the delimiter at
\* its limit
C18_Witness ==
    /\ NoFallbackDelimiterCase
    /\ \E i \in DOMAIN batch.pairs :
          /\ batch.pairs[i].end - batch.pairs[i].start
                = ConfigOf(options).cfg.targetSize + 1
          /\ batch.pairs[i].end < BufLen

\* C19 (one cursor for next() and for...of): under any interleaving of
\* next() calls and generator steps on one Chunker, the ranges handed out in
\* call order are the start of one exhaustive pass, the whole pass once
\* undefined has come back, and the cursor stands at the end of the last
\* one; a generator stepped after the pass has ended, with no reset() in
\* between, completes without a chunk.
C19_SharedCursor ==
    /\ [](chunker.status = "ok"
            => /\ Len(yielded) <= Len(FreshPass)
               /\ yielded = SubSeq(FreshPass, 1, Len(yielded))
               /\ chunker.wasm.cursor
                     = IF yielded = <<>> THEN 0 ELSE yielded[Len(yielded)].end
               /\ done => yielded = FreshPass)
    /\ [][\A g \in Generators :
            (done /\ GenStep(g))
                => yielded' = yielded /\ gens'[g] = "completed" /\ done']_vars
\* two loops have ended on one pass of several ranges: the second loop was
\* started or resumed after the Chunker had run out
C19_Witness ==
    /\ gens[1] = "completed" /\ gens[2] = "completed"
    /\ ~wasReset
    /\ Len(yielded) >= 2 /\ yielded = FreshPass

====
